---- MODULE Spec2Model ----
(***************************************************************************)
(* fetchiva: a thin layer over fetch with global configuration, timeout,   *)
(* retry, lifecycle hooks and a typed error taxonomy.                      *)
(*                                                                         *)
(* Modelling conventions                                                   *)
(*   - a JavaScript object is a function from its own keys to optional     *)
(*     values; an optional value is <<>> (undefined) or <<v>>;             *)
(*   - a string is a sequence of tokens, so that endsWith, startsWith,     *)
(*     slice and includes are computed on the text;                        *)
(*   - every await of the code is a position (pc) of the call; timers,     *)
(*     the transport, the hooks and the caller act between positions.      *)
(***************************************************************************)
EXTENDS Integers, Sequences, FiniteSets, TLC

VARIABLES globalConfig, lastArg, calls, probe

vars == <<globalConfig, lastArg, calls, probe>>

(* ---------------------------- bounds ---------------------------------- *)

\* largest retry budget that the sampled configurations and options use
MaxRetries == 1

\* longest path and base URL, in tokens, handed to buildURL directly
MaxLen == 2

(* ------------------------ optional values ----------------------------- *)

Undefined == <<>>

Some(v) == <<v>>

\* a ?? b, for an optional a and an optional b
Coalesce(a, b) == IF a # Undefined THEN a ELSE b

\* o.k of an object: undefined when the key is absent
Get(o, k) == IF k \in DOMAIN o THEN o[k] ELSE Undefined

EmptyObj == [k \in {} |-> Undefined]

\* { ...a, ...b }: the keys of both, b's value where b has the key
Spread(a, b) ==
  [k \in (DOMAIN a) \cup (DOMAIN b) |-> IF k \in DOMAIN b THEN b[k] ELSE a[k]]

\* the object without the keys ks (rest pattern of a destructuring)
\* a destructuring that strips nothing: the rest is the whole object
OmitNothing(o, ks) == o

Omit(o, ks) == [k \in (DOMAIN o) \ ks |-> o[k]]

SameObj(a, b) == DOMAIN a = DOMAIN b /\ \A k \in DOMAIN a : a[k] = b[k]

(* ----------------------------- text ----------------------------------- *)

\* s.includes(n)
Includes(s, n) ==
  \E i \in 0..(Len(s) - Len(n)) : SubSeq(s, i + 1, i + Len(n)) = n

\* s.endsWith("/"), s.startsWith("/")
EndsWithSlash(s) == Len(s) > 0 /\ s[Len(s)] = "/"

StartsWithSlash(s) == Len(s) > 0 /\ s[1] = "/"

Digit == <<"0", "1", "2", "3", "4", "5", "6", "7", "8", "9">>

RECURSIVE NumText(_)
\* the decimal text of a natural number, as a template literal prints it
NumText(n) ==
  IF n < 10 THEN <<Digit[n + 1]>>
  ELSE Append(NumText(n \div 10), Digit[(n % 10) + 1])

(* ------------------------- configuration store ------------------------ *)

getConfig == globalConfig

\* a merge into the previous configuration instead of a replacement
configureFetchivaMerging(config) == Spread(globalConfig, config)

\* globalConfig = { ...config }
configureFetchiva(config) == Spread(EmptyObj, config)

(* --------------------------- error taxonomy --------------------------- *)

\* an error value: cls is the class it was constructed from
MkError(cls, name, message) ==
  [cls |-> cls, name |-> name, message |-> message, type |-> Undefined,
   status |-> Undefined, statusText |-> Undefined, url |-> Undefined,
   method |-> Undefined, cause |-> Undefined]

\* new FetchivaError(type, message, options), name set by the subclass
FetchivaError(cls, type, message, options) ==
  [cls |-> cls, name |-> cls, message |-> message, type |-> Some(type),
   status |-> Undefined, statusText |-> Undefined,
   url |-> Get(options, "url"), method |-> Get(options, "method"),
   cause |-> Get(options, "cause")]

\* the context options not handed to the base constructor
NetworkErrorBare(message, options) ==
  FetchivaError("NetworkError", "network", message, EmptyObj)

NetworkError(message, options) ==
  FetchivaError("NetworkError", "network", message, options)

TimeoutError(message, options) ==
  FetchivaError("TimeoutError", "timeout", message, options)

HttpError(message, options) ==
  [FetchivaError("HttpError", "http", message, options)
     EXCEPT !.status = Get(options, "status"),
            !.statusText = Get(options, "statusText")]

RECURSIVE ProtoChain(_)
\* the classes on the prototype chain of a value constructed from cls; a
\* primitive value, null and undefined have none
ProtoChain(cls) ==
  IF cls \in {"NetworkError", "TimeoutError", "HttpError"}
  THEN {cls} \cup ProtoChain("FetchivaError")
  ELSE IF cls \in {"FetchivaError", "TypeError", "SyntaxError", "DOMException"}
  THEN {cls} \cup ProtoChain("Error")
  ELSE IF cls = "Error" THEN {cls} \cup ProtoChain("Object")
  ELSE IF cls = "Object" THEN {cls}
  ELSE {}

\* e instanceof C
InstanceOf(e, C) == C \in ProtoChain(e.cls)

\* the type field read instead of the class
isNetworkErrorByType(e) == "type" \in DOMAIN e /\ e.type = Some("network")

isNetworkError(e) == InstanceOf(e, "NetworkError")

isTimeoutError(e) == InstanceOf(e, "TimeoutError")

isHttpError(e) == InstanceOf(e, "HttpError")

isFetchivaError(e) == InstanceOf(e, "FetchivaError")

(* --------------------------- request resolver ------------------------- *)

DEFAULT_RETRY_DELAY == 1000

\* { ...a, ...b } where b may be undefined
SpreadOpt(a, b) == IF b = Undefined THEN a ELSE Spread(a, b[1])

\* !base: undefined or the empty string
Falsy(base) == base = Undefined \/ Len(base[1]) = 0

\* the trailing slash of the base left in place
buildURLKeepSlash(path, baseURL) ==
  LET base == Coalesce(baseURL, Get(getConfig, "baseURL")) IN
  IF Falsy(base) THEN path
  ELSE base[1] \o (IF StartsWithSlash(path) THEN path ELSE <<"/">> \o path)

\* the slash taken off the front of the path instead of ensured there
buildURLStripPath(path, baseURL) ==
  LET base == Coalesce(baseURL, Get(getConfig, "baseURL")) IN
  IF Falsy(base) THEN path
  ELSE LET b == base[1]
           normalizedBase == IF EndsWithSlash(b) THEN SubSeq(b, 1, Len(b) - 1) ELSE b
           normalizedPath == IF StartsWithSlash(path) THEN SubSeq(path, 2, Len(path))
                             ELSE path
       IN  normalizedBase \o normalizedPath

\* the global base preferred to the per-call one
buildURLGlobalFirst(path, baseURL) ==
  LET base == Coalesce(Get(getConfig, "baseURL"), baseURL) IN
  IF Falsy(base) THEN path
  ELSE LET b == base[1]
           normalizedBase == IF EndsWithSlash(b) THEN SubSeq(b, 1, Len(b) - 1) ELSE b
           normalizedPath == IF StartsWithSlash(path) THEN path ELSE <<"/">> \o path
       IN  normalizedBase \o normalizedPath

buildURL(path, baseURL) ==
  LET base == Coalesce(baseURL, Get(getConfig, "baseURL")) IN
  IF Falsy(base) THEN path
  ELSE LET b == base[1]
           normalizedBase == IF EndsWithSlash(b) THEN SubSeq(b, 1, Len(b) - 1) ELSE b
           normalizedPath == IF StartsWithSlash(path) THEN path ELSE <<"/">> \o path
       IN  normalizedBase \o normalizedPath

\* the spread written the other way round: a global value wins
mergeHeadersGlobalWins(requestHeaders) ==
  LET globalHeaders == Coalesce(Get(getConfig, "headers"), Some(EmptyObj))[1] IN
  SpreadOpt(SpreadOpt(EmptyObj, requestHeaders), Some(globalHeaders))

mergeHeaders(requestHeaders) ==
  LET globalHeaders == Coalesce(Get(getConfig, "headers"), Some(EmptyObj))[1] IN
  SpreadOpt(globalHeaders, requestHeaders)

\* Object.assign(globalHeaders, requestHeaders): the merge written into the
\* headers object of the store
storeAfterMergeAssigning(requestHeaders) ==
  IF Get(getConfig, "headers") # Undefined
  THEN ("headers" :> Some(mergeHeaders(requestHeaders))) @@ getConfig
  ELSE getConfig

\* the store after mergeHeaders: both spreads copy into a fresh object
\* literal, so the headers object of the store is left as it was
storeAfterMerge(requestHeaders) == getConfig

\* the global timeout preferred to the per-call one
getTimeoutGlobalFirst(requestTimeout) ==
  Coalesce(Get(getConfig, "timeout"), requestTimeout)

getTimeout(requestTimeout) == Coalesce(requestTimeout, Get(getConfig, "timeout"))

\* the per-call retry object taken whole in place of the global one
getRetryConfigWhole(requestRetry) ==
  IF requestRetry # Undefined THEN requestRetry[1]
  ELSE Coalesce(Get(getConfig, "retry"), Some(EmptyObj))[1]

getRetryConfig(requestRetry) ==
  LET globalRetry == Coalesce(Get(getConfig, "retry"), Some(EmptyObj))[1] IN
  SpreadOpt(globalRetry, requestRetry)

(* ------------------------ failure classification ---------------------- *)

isRetryableStatus(status) == status >= 500 /\ status < 600

\* only the status test survives: connectivity failures are no longer retried
isRetryableErrorHttpOnly(error) ==
  InstanceOf(error, "HttpError") /\ error.status[1] >= 500 /\ error.status[1] < 600

isRetryableError(error) ==
  IF InstanceOf(error, "TimeoutError") \/ InstanceOf(error, "NetworkError") THEN TRUE
  ELSE IF InstanceOf(error, "HttpError")
       THEN error.status[1] >= 500 /\ error.status[1] < 600
       ELSE \/ error.name = "TypeError"
            \/ error.name = "AbortError"
            \/ Includes(error.message, <<"network">>)
            \/ Includes(error.message, <<"fetch">>)

\* every abort taken for a timeout: the controller's signal not consulted
isTimeoutAbortAnyAbort(error, controller, aborted) == error.name = "AbortError"

\* a test on the error's name alone, for the wrong name
isTimeoutAbortByName(error, controller, aborted) == error.name = "TimeoutError"

\* controller: undefined or the id of the attempt's AbortController;
\* aborted: the ids of the controllers whose signal is aborted
isTimeoutAbort(error, controller, aborted) ==
  error.name = "AbortError" /\ controller # Undefined /\ controller[1] \in aborted

isNetworkLikeError(error) ==
  \/ error.name = "TypeError"
  \/ Includes(error.message, <<"network">>)
  \/ Includes(error.message, <<"fetch">>)
  \/ Includes(error.message, <<"Failed", "to", "fetch">>)

\* response.ok of the transport: status in 200..299
ResponseOk(status) == status >= 200 /\ status <= 299

(* ------------------------------ inputs -------------------------------- *)

\* the caller's AbortSignal, and the signal of the controller of attempt id
CallerSignal == [src |-> "caller", id |-> 0]

ControllerSignal(id) == [src |-> "controller", id |-> id]

CfgA ==
  ("baseURL" :> Some(<<"api", "/">>)) @@
  ("headers" :> Some(("Authorization" :> Some("global")) @@ ("Accept" :> Some("json")))) @@
  ("timeout" :> Some(50)) @@
  ("retry" :> Some(("retries" :> Some(MaxRetries)) @@ ("retryDelay" :> Some(10)))) @@
  ("onRequest" :> Some("reqA")) @@ ("onResponse" :> Some("resA")) @@
  ("onError" :> Some("errA"))

CfgB ==
  ("baseURL" :> Some(<<"other">>)) @@
  ("retry" :> Some("retries" :> Some(1))) @@
  ("onRequest" :> Some("reqB")) @@ ("onError" :> Some("errB"))

SampleConfigs == {EmptyObj, CfgA, CfgB}

OptRetry ==
  ("method" :> Some("POST")) @@
  ("retry" :> Some(("retries" :> Some(MaxRetries)) @@ ("retryDelay" :> Some(10))))

OptTimeoutSignal ==
  ("timeout" :> Some(30)) @@ ("signal" :> Some(CallerSignal)) @@
  ("retry" :> Some("retries" :> Some(1)))

OptSignal ==
  ("signal" :> Some(CallerSignal)) @@ ("baseURL" :> Some(<<"local", "/">>)) @@
  ("headers" :> Some("Authorization" :> Some("call")))

OptNoRetry ==
  ("retry" :> Some(("retries" :> Some(0)) @@ ("retryDelay" :> Some(20))))

SampleOptions == {EmptyObj, OptRetry, OptTimeoutSignal, OptSignal, OptNoRetry}

SamplePaths == {<<"/", "a">>}

\* what the transport can answer: status, statusText, body
Statuses == {200, 404, 500, 600}

StatusTexts == {<<"Status">>, <<"upstream", "fetch", "failed">>}

Bodies(status) == IF ResponseOk(status) THEN {"d"} ELSE {"e"}

Responses ==
  {resp \in [status : Statuses, statusText : StatusTexts,
             data : {"d", "e"}, headers : {"h"}] :
      resp.data \in Bodies(resp.status)}

\* what the transport can reject with on its own, and when it is aborted
TypeErrFetch == MkError("TypeError", "TypeError", <<"Failed", "to", "fetch">>)

ErrPlain == MkError("Error", "Error", <<"boom">>)

AbortErr == MkError("DOMException", "AbortError", <<"Aborted">>)

TransportErrors == {TypeErrFetch, ErrPlain}

\* what a hook can throw
TypeErrHook == MkError("TypeError", "TypeError", <<"not", "a", "function">>)

HookErrors == {ErrPlain, TypeErrHook}

\* what response.json() can throw on an unparsable body
SyntaxErr == MkError("SyntaxError", "SyntaxError", <<"Unexpected", "token">>)

SyntaxErrNet == MkError("SyntaxError", "SyntaxError", <<"Unexpected", "token", "network">>)

JsonErrors == {SyntaxErr, SyntaxErrNet}

(* --------------------------- one fetchiva call ------------------------ *)

\* probe holds the arguments and the result of the last direct use of a
\* pure function of the library; no such use has been made yet
NoProbe == [kind |-> "none"]

IdleCall ==
  [pc |-> "idle", path |-> <<>>, options |-> EmptyObj, config |-> EmptyObj,
   fetchOptions |-> EmptyObj, url |-> <<>>, mergedHeaders |-> EmptyObj,
   finalTimeout |-> Undefined, maxRetries |-> 0, retryDelay |-> 0,
   attempt |-> 0, lastError |-> Undefined,
   controller |-> Undefined, timeoutId |-> Undefined,
   timers |-> {}, aborted |-> {}, callerAborted |-> FALSE,
   requestContext |-> Undefined, response |-> Undefined,
   pending |-> Undefined, result |-> Undefined,
   outcome |-> "pending", value |-> Undefined,
   \* history of the call, read by the properties only
   nDispatch |-> 0, sent |-> Undefined, log |-> <<>>, onErrorArgs |-> <<>>,
   nOnRequest |-> 0, nOnResponse |-> 0, hooksUsed |-> {},
   threwInside |-> FALSE, hookThrew |-> FALSE, onErrorThrew |-> Undefined,
   armed |-> <<>>,
   onRequestReturned |-> Undefined, onResponseReturned |-> Undefined]

\* the hooks read from the live global configuration on every use
CallConfigLive(r) == getConfig

\* the configuration the attempt loop reads its hooks from: const config
CallConfig(r) == r.config

\* onRequest consulted for the first attempt only
HasHookFirstAttempt(r, h) ==
  Get(CallConfig(r), h) # Undefined /\ (h = "onRequest" => r.attempt = 0)

\* if (config.onRequest), if (config.onResponse), if (config.onError)
HasHook(r, h) == Get(CallConfig(r), h) # Undefined

UseHook(r, h) == [r EXCEPT !.hooksUsed = @ \cup {Get(CallConfig(r), h)[1]}]

\* the increment forgotten
NextAttemptStuck(a) == a

\* attempt++
NextAttempt(a) == a + 1

\* the retry budget tested one attempt too far
hasBudgetInclusive(r) == r.attempt <= r.maxRetries

\* attempt < maxRetries, the second conjunct of both retry tests
hasBudget(r) == r.attempt < r.maxRetries

\* a rejection test that only looks for server errors
rejectsResponseServerOnly(response) == isRetryableStatus(response.status)

\* if (!response.ok)
rejectsResponse(response) == ~ResponseOk(response.status)

\* if (timeoutId) clearTimeout(timeoutId)
ClearTimeout(r) ==
  IF r.timeoutId # Undefined THEN [r EXCEPT !.timers = @ \ {r.timeoutId[1]}] ELSE r

\* a finally block that leaves the timer alone
FinallyEmpty(r) == r

\* finally { if (timeoutId) clearTimeout(timeoutId) }
Finally(r) == ClearTimeout(r)

Reject(r, e) ==
  [Finally(r) EXCEPT !.pc = "done", !.outcome = "rejected", !.value = Some(e)]

Resolve(r, res) ==
  [Finally(r) EXCEPT !.pc = "done", !.outcome = "resolved", !.value = Some(res)]

\* await fetch(requestContext.url, requestContext.options)
Dispatch(r) ==
  [r EXCEPT !.pc = "fetch", !.nDispatch = @ + 1, !.sent = r.requestContext]

\* the timer left armed while the delay runs
RetryKeepingTimer(r) == [r EXCEPT !.attempt = NextAttempt(@), !.pc = "delay"]

\* attempt++; clearTimeout; await delay(retryDelay); continue
Retry(r) ==
  [ClearTimeout([r EXCEPT !.attempt = NextAttempt(@)]) EXCEPT !.pc = "delay"]

\* await config.onError(e) in the catch block, then throw e
ReportAndThrow(r, e, at) ==
  IF HasHook(r, "onError")
  THEN [UseHook(r, "onError") EXCEPT !.pc = at, !.pending = Some(e),
                                      !.onErrorArgs = Append(@, e)]
  ELSE Reject(r, e)

\* ${finalTimeout} in a template literal
TimeoutText(finalTimeout) ==
  IF finalTimeout = Undefined THEN <<"undefined">> ELSE NumText(finalTimeout[1])

\* the catch block: classify, then retry or report and throw
Catch(r, rawError) ==
  LET ctx == r.requestContext[1]
      opts == ("cause" :> Some(rawError)) @@ ("url" :> Some(ctx.url)) @@
              ("method" :> Get(ctx.options, "method"))
      fetchivaError ==
        IF isTimeoutAbort(rawError, r.controller, r.aborted)
        THEN TimeoutError(<<"Request", "timeout", "after">> \o
                          TimeoutText(r.finalTimeout) \o <<"ms">>, opts)
        ELSE IF isNetworkLikeError(rawError)
             THEN NetworkError(IF Len(rawError.message) > 0 THEN rawError.message
                               ELSE <<"Network", "error">>, opts)
             ELSE rawError
      r1 == [r EXCEPT !.lastError = Some(fetchivaError)]
  IN  IF isRetryableError(fetchivaError) /\ hasBudget(r)
      THEN Retry(r1)
      ELSE ReportAndThrow(r1, fetchivaError, "onErrorCatch")

\* one controller made before the loop and used by every attempt
ControllerIdShared(attempt) == 0

\* new AbortController(): the controller of an attempt is named by the attempt
ControllerId(attempt) == attempt

\* the head of the while loop up to its first await; after the loop, the
\* fall-through that reports and throws lastError
EnterLoop(r) ==
  IF r.attempt <= r.maxRetries
  THEN LET armed == r.finalTimeout # Undefined
           id == ControllerId(r.attempt)
           controller == IF armed THEN Some(id) ELSE Undefined
           signal == IF armed THEN Some(ControllerSignal(id))
                     ELSE Get(r.options, "signal")
           r1 == [r EXCEPT
                    !.response = Undefined, !.result = Undefined,
                    !.pending = Undefined,
                    \* the controllers of earlier attempts are out of reach
                    !.aborted = IF armed THEN @ \cap {id} ELSE {},
                    !.armed = IF armed THEN Append(@, id) ELSE @,
                    !.onRequestReturned = Undefined,
                    !.controller = controller,
                    !.timeoutId = controller,
                    !.timers = IF armed THEN @ \cup {id} ELSE @,
                    !.requestContext =
                       Some([url |-> r.url,
                             options |-> Spread(Spread(r.fetchOptions,
                                               "headers" :> Some(r.mergedHeaders)),
                                               "signal" :> signal)])]
       IN  IF HasHook(r1, "onRequest")
           THEN [UseHook(r1, "onRequest") EXCEPT !.pc = "onRequest",
                                                  !.nOnRequest = @ + 1]
           ELSE Dispatch(r1)
  ELSE IF HasHook(r, "onError") /\ r.lastError # Undefined
       THEN [UseHook(r, "onError") EXCEPT !.pc = "onErrorFinal",
                                           !.pending = r.lastError,
                                           !.onErrorArgs = Append(@, r.lastError[1])]
       ELSE [r EXCEPT !.pc = "done", !.outcome = "rejected", !.value = r.lastError]

\* is the signal (an optional) aborted in the call r
SignalAborted(r, signal) ==
  /\ signal # Undefined
  /\ \/ signal[1].src = "controller" /\ signal[1].id \in r.aborted
     \/ signal[1].src = "caller" /\ r.callerAborted

\* a delay whose promise is never resolved: the call stays where it is
afterDelayNever(r) == r

\* the delay's promise resolves: continue runs the finally block and
\* re-enters the loop
afterDelay(r) == EnterLoop(Finally(r))

(* ------------------------------ actions ------------------------------- *)

\* the locals of a call kept in module scope: one copy for every call
SetShared(c, r) == calls' = [d \in DOMAIN calls |-> r]

Set(c, r) == calls' = [calls EXCEPT ![c] = r]

\* configureFetchiva(config)
Configure(config) ==
  /\ \E c \in DOMAIN calls : calls[c].pc # "done"
  /\ globalConfig' = configureFetchiva(config)
  /\ lastArg' = config
  /\ UNCHANGED <<calls, probe>>

\* fetchiva(path, options): resolution at entry, then the first attempt
Start(c, path, options) ==
  /\ calls[c].pc = "idle"
  /\ LET config == getConfig
         retryConfig == getRetryConfig(Get(options, "retry"))
         r == [calls[c] EXCEPT
                 !.path = path, !.options = options, !.config = config,
                 !.fetchOptions = Omit(options, {"baseURL", "headers", "timeout", "retry"}),
                 !.url = buildURL(path, Get(options, "baseURL")),
                 !.mergedHeaders = mergeHeaders(Get(options, "headers")),
                 !.finalTimeout = getTimeout(Get(options, "timeout")),
                 !.maxRetries = Coalesce(Get(retryConfig, "retries"), Some(0))[1],
                 !.retryDelay = Coalesce(Get(retryConfig, "retryDelay"),
                                         Some(DEFAULT_RETRY_DELAY))[1],
                 !.attempt = 0, !.lastError = Undefined]
     IN  Set(c, EnterLoop(r))
  /\ globalConfig' = storeAfterMerge(Get(options, "headers"))
  /\ UNCHANGED <<lastArg, probe>>

\* the attempt's timer fires: controller.abort()
TimerFire(c, id) ==
  /\ id \in calls[c].timers
  /\ Set(c, [calls[c] EXCEPT !.timers = @ \ {id}, !.aborted = @ \cup {id}])
  /\ UNCHANGED <<globalConfig, lastArg, probe>>

\* the caller aborts the signal it passed in options
CallerAbort(c) ==
  /\ calls[c].pc \notin {"idle", "done"}
  /\ Get(calls[c].options, "signal") # Undefined
  /\ ~calls[c].callerAborted
  /\ Set(c, [calls[c] EXCEPT !.callerAborted = TRUE])
  /\ UNCHANGED <<globalConfig, lastArg, probe>>

\* what onRequest can return in place of the context it was given
ReplacedContext(ctx) ==
  [ctx EXCEPT !.url = <<"/", "modified">>,
              !.options = Spread(@, "method" :> Some("PUT"))]

\* the hook's return value dropped
AdoptIgnoring(original, modified) == original

\* if (modified) { original = modified }: modified is the optional the hook
\* returned
Adopt(original, modified) == IF modified # Undefined THEN modified[1] ELSE original

\* await config.onRequest(requestContext) returns nothing
OnRequestVoid(c) ==
  /\ calls[c].pc = "onRequest"
  /\ Set(c, Dispatch([calls[c] EXCEPT
                        !.requestContext = Some(Adopt(@[1], Undefined))]))
  /\ UNCHANGED <<globalConfig, lastArg, probe>>

\* await config.onRequest(requestContext) returns a replacement
OnRequestReplace(c) ==
  /\ calls[c].pc = "onRequest"
  /\ LET modifiedContext == Some(ReplacedContext(calls[c].requestContext[1]))
     IN  Set(c, Dispatch([calls[c] EXCEPT
                            !.requestContext = Some(Adopt(@[1], modifiedContext)),
                            !.onRequestReturned = modifiedContext]))
  /\ UNCHANGED <<globalConfig, lastArg, probe>>

\* a hook awaited inside the try block throws
HookThrowInTry(c, e) ==
  /\ calls[c].pc \in {"onRequest", "onErrorHttp", "onResponse"}
  /\ Set(c, Catch([calls[c] EXCEPT
                     !.threwInside = TRUE, !.hookThrew = TRUE,
                     !.onErrorThrew = IF calls[c].pc = "onErrorHttp" THEN Some(e) ELSE @],
                   e))
  /\ UNCHANGED <<globalConfig, lastArg, probe>>

\* the transport answers with a response
FetchRespond(c, response) ==
  /\ calls[c].pc = "fetch"
  /\ LET r == [calls[c] EXCEPT
                 !.response = Some(response),
                 !.log = Append(@, [kind |-> "response", status |-> response.status,
                                    name |-> "none"])]
         ctx == r.requestContext[1]
     IN  IF isRetryableStatus(response.status) /\ hasBudget(r)
         THEN Set(c, Retry(r))
         ELSE IF rejectsResponse(response)
              THEN LET httpError ==
                         HttpError(<<"HTTP">> \o NumText(response.status) \o <<":">>
                                     \o response.statusText,
                                   ("status" :> Some(response.status)) @@
                                   ("statusText" :> Some(response.statusText)) @@
                                   ("url" :> Some(ctx.url)) @@
                                   ("method" :> Get(ctx.options, "method")))
                   IN  IF HasHook(r, "onError")
                       THEN Set(c, [UseHook(r, "onError") EXCEPT
                                      !.pc = "onErrorHttp", !.pending = Some(httpError),
                                      !.onErrorArgs = Append(@, httpError)])
                       ELSE Set(c, Catch(r, httpError))
              ELSE Set(c, [r EXCEPT !.pc = "json"])
  /\ UNCHANGED <<globalConfig, lastArg, probe>>

\* the transport rejects: on its own, or with an AbortError once the signal
\* it was given is aborted
FetchReject(c, e) ==
  /\ calls[c].pc = "fetch"
  /\ \/ e \in TransportErrors
     \/ e = AbortErr /\ SignalAborted(calls[c], Get(calls[c].sent[1].options, "signal"))
  /\ Set(c, Catch([calls[c] EXCEPT
                     !.log = Append(@, [kind |-> "failure", status |-> 0,
                                        name |-> e.name])], e))
  /\ UNCHANGED <<globalConfig, lastArg, probe>>

\* await config.onError(httpError) returns; throw httpError, inside the try
OnErrorHttpReturn(c) ==
  /\ calls[c].pc = "onErrorHttp"
  /\ Set(c, Catch(calls[c], calls[c].pending[1]))
  /\ UNCHANGED <<globalConfig, lastArg, probe>>

\* await response.json() returns the parsed body
JsonReturn(c) ==
  /\ calls[c].pc = "json"
  /\ LET response == calls[c].response[1]
         result == [data |-> response.data, status |-> response.status,
                    statusText |-> response.statusText,
                    headers |-> response.headers, ok |-> ResponseOk(response.status)]
         r == [calls[c] EXCEPT !.result = Some(result)]
     IN  IF HasHook(r, "onResponse")
         THEN Set(c, [UseHook(r, "onResponse") EXCEPT !.pc = "onResponse",
                                                       !.nOnResponse = @ + 1])
         ELSE Set(c, Resolve(r, result))
  /\ UNCHANGED <<globalConfig, lastArg, probe>>

\* await response.json() throws: the body does not parse, or the read was
\* aborted through the signal of the request
JsonThrow(c, e) ==
  /\ calls[c].pc = "json"
  /\ \/ e \in JsonErrors
     \/ e = AbortErr /\ SignalAborted(calls[c], Get(calls[c].sent[1].options, "signal"))
  /\ Set(c, Catch([calls[c] EXCEPT !.threwInside = TRUE], e))
  /\ UNCHANGED <<globalConfig, lastArg, probe>>

\* await config.onResponse(result) returns nothing
OnResponseVoid(c) ==
  /\ calls[c].pc = "onResponse"
  /\ Set(c, Resolve(calls[c], Adopt(calls[c].result[1], Undefined)))
  /\ UNCHANGED <<globalConfig, lastArg, probe>>

\* await config.onResponse(result) returns a replacement
OnResponseReplace(c) ==
  /\ calls[c].pc = "onResponse"
  /\ LET modifiedResponse == Some([calls[c].result[1] EXCEPT !.data = "modified"])
         result == Adopt(calls[c].result[1], modifiedResponse)
     IN  Set(c, Resolve([calls[c] EXCEPT !.result = Some(result),
                                         !.onResponseReturned = modifiedResponse],
                        result))
  /\ UNCHANGED <<globalConfig, lastArg, probe>>

\* await config.onError(e) outside the try returns; throw e
OnErrorReturn(c) ==
  /\ calls[c].pc \in {"onErrorCatch", "onErrorFinal"}
  /\ Set(c, IF calls[c].pc = "onErrorCatch"
            THEN Reject(calls[c], calls[c].pending[1])
            ELSE [calls[c] EXCEPT !.pc = "done", !.outcome = "rejected",
                                  !.value = calls[c].pending])
  /\ UNCHANGED <<globalConfig, lastArg, probe>>

\* await config.onError(e) outside the try throws: the throw leaves the call
OnErrorThrow(c, e) ==
  /\ calls[c].pc \in {"onErrorCatch", "onErrorFinal"}
  /\ Set(c, IF calls[c].pc = "onErrorCatch"
            THEN Reject([calls[c] EXCEPT !.threwInside = TRUE, !.hookThrew = TRUE,
                                         !.onErrorThrew = Some(e)], e)
            ELSE [calls[c] EXCEPT !.pc = "done", !.outcome = "rejected",
                                  !.value = Some(e), !.threwInside = TRUE,
                                  !.hookThrew = TRUE,
                                  !.onErrorThrew = Some(e)])
  /\ UNCHANGED <<globalConfig, lastArg, probe>>

\* await delay(retryDelay) elapses; continue runs the finally block and
\* re-enters the loop
DelayElapsed(c) ==
  /\ calls[c].pc = "delay"
  /\ Set(c, afterDelay(calls[c]))
  /\ UNCHANGED <<globalConfig, lastArg, probe>>

(* --------------------------- specification ---------------------------- *)

Init ==
  /\ globalConfig = EmptyObj
  /\ lastArg = EmptyObj
  /\ calls = [c \in {1} |-> IdleCall]
  /\ probe = NoProbe

Next ==
  \/ \E config \in SampleConfigs : Configure(config)
  \/ \E c \in DOMAIN calls, path \in SamplePaths, options \in SampleOptions :
       Start(c, path, options)
  \/ \E c \in DOMAIN calls : \E id \in calls[c].timers : TimerFire(c, id)
  \/ \E c \in DOMAIN calls : CallerAbort(c)
  \/ \E c \in DOMAIN calls : OnRequestVoid(c)
  \/ \E c \in DOMAIN calls : OnRequestReplace(c)
  \/ \E c \in DOMAIN calls, e \in HookErrors : HookThrowInTry(c, e)
  \/ \E c \in DOMAIN calls, response \in Responses : FetchRespond(c, response)
  \/ \E c \in DOMAIN calls, e \in TransportErrors \cup {AbortErr} : FetchReject(c, e)
  \/ \E c \in DOMAIN calls : OnErrorHttpReturn(c)
  \/ \E c \in DOMAIN calls : JsonReturn(c)
  \/ \E c \in DOMAIN calls, e \in JsonErrors \cup {AbortErr} : JsonThrow(c, e)
  \/ \E c \in DOMAIN calls : OnResponseVoid(c)
  \/ \E c \in DOMAIN calls : OnResponseReplace(c)
  \/ \E c \in DOMAIN calls : OnErrorReturn(c)
  \/ \E c \in DOMAIN calls, e \in HookErrors : OnErrorThrow(c, e)
  \/ \E c \in DOMAIN calls : DelayElapsed(c)

Spec == Init /\ [][Next]_vars

(* ------------------ direct use of the pure functions ------------------ *)

\* the texts of at most MaxLen tokens: "a" stands for a segment without slash
Texts == UNION {[1..n -> {"a", "/"}] : n \in 0..MaxLen}

\* configurations that set the base URL only
BaseConfigs == {EmptyObj} \cup {("baseURL" :> Some(b)) : b \in Texts}

OptionalTexts == {Undefined} \cup {Some(b) : b \in Texts}

\* a value of the language: cls is the class it was constructed from, or the
\* type of a primitive
Primitive(t) == [cls |-> t]

\* an object literal with the fields of a network error
LookAlike ==
  [MkError("Object", "NetworkError", <<"Failed", "to", "fetch">>)
     EXCEPT !.type = Some("network")]

\* values handed to the kind predicates, with the way each was made
GuardInputs ==
  {[made |-> "NetworkError", value |-> NetworkError(<<"error">>, EmptyObj)],
   [made |-> "TimeoutError", value |-> TimeoutError(<<"error">>, EmptyObj)],
   [made |-> "HttpError",
    value |-> HttpError(<<"error">>, ("status" :> Some(500)) @@
                                     ("statusText" :> Some(<<"Error">>)))],
   [made |-> "FetchivaError",
    value |-> FetchivaError("FetchivaError", "network", <<"error">>, EmptyObj)],
   [made |-> "FetchivaError",
    value |-> FetchivaError("FetchivaError", "http", <<"Test", "error">>,
                            ("url" :> Some(<<"api">>)) @@ ("method" :> Some("POST")))],
   [made |-> "Error", value |-> ErrPlain],
   [made |-> "TypeError", value |-> TypeErrFetch],
   [made |-> "literal", value |-> LookAlike],
   [made |-> "string", value |-> Primitive("string")],
   [made |-> "number", value |-> Primitive("number")],
   [made |-> "null", value |-> Primitive("null")],
   [made |-> "undefined", value |-> Primitive("undefined")]}

\* buildURL(path, baseURL) under the current configuration
UseBuildURL(path, baseURL) ==
  /\ probe' = [kind |-> "buildURL", path |-> path, baseURL |-> baseURL,
               config |-> getConfig, url |-> buildURL(path, baseURL)]
  /\ UNCHANGED <<globalConfig, lastArg, calls>>

\* the four kind predicates applied to one value
UseGuards(input) ==
  /\ probe' = [kind |-> "guards", made |-> input.made, value |-> input.value,
               isNetworkError |-> isNetworkError(input.value),
               isTimeoutError |-> isTimeoutError(input.value),
               isHttpError |-> isHttpError(input.value),
               isFetchivaError |-> isFetchivaError(input.value)]
  /\ UNCHANGED <<globalConfig, lastArg, calls>>

InitPure ==
  /\ globalConfig \in {configureFetchiva(config) : config \in BaseConfigs}
  /\ lastArg = globalConfig
  /\ calls = [c \in {1} |-> IdleCall]
  /\ probe = NoProbe

NextPure ==
  \/ \E path \in Texts, baseURL \in OptionalTexts : UseBuildURL(path, baseURL)
  \/ \E input \in GuardInputs : UseGuards(input)

SpecPure == InitPure /\ [][NextPure]_vars

TypeOK ==
  \A c \in DOMAIN calls :
    calls[c].pc \in {"idle", "onRequest", "fetch", "delay", "onErrorHttp", "json",
                     "onResponse", "onErrorCatch", "onErrorFinal", "done"}

(* ------------------------ reading a call's history -------------------- *)

Done(r) == r.pc = "done"

Rejected(r) == Done(r) /\ r.outcome = "rejected"

Resolved(r) == Done(r) /\ r.outcome = "resolved"

\* no hook and no body parser has thrown in the call
Quiet(r) == ~r.threwInside

IsResponse(entry) == entry.kind = "response"

FailureStatus(entry) == IsResponse(entry) /\ ~(entry.status >= 200 /\ entry.status <= 299)

ServerErrorStatus(entry) == IsResponse(entry) /\ entry.status >= 500 /\ entry.status <= 599

ConnectivityFailure(entry) == entry.kind = "failure" /\ entry.name = "TypeError"

AbortFailure(entry) == entry.kind = "failure" /\ entry.name = "AbortError"

\* the signal the transport was last invoked with
SentSignal(r) == Get(r.sent[1].options, "signal")

(* ------------------------------- C1 ----------------------------------- *)

\* C1: whatever the transport, the hooks and the timers do, a call never
\* dispatches the transport more than retries + 1 times.
C1_DispatchBound ==
  \A c \in DOMAIN calls : calls[c].nDispatch <= calls[c].maxRetries + 1

C1_Witness ==
  \E c \in DOMAIN calls :
    /\ Done(calls[c])
    /\ calls[c].maxRetries >= 1
    /\ calls[c].nDispatch = calls[c].maxRetries + 1

(* ------------------------------- C2 ----------------------------------- *)

\* C2: when every dispatch of a call returned status 500, the finished call
\* has made exactly retries + 1 dispatches and has rejected with an HttpError
\* of status 500.
C2_AlwaysServerError ==
  \A c \in DOMAIN calls :
    LET r == calls[c] IN
    (/\ Done(r) /\ Quiet(r) /\ Len(r.log) >= 1
     /\ \A i \in 1..Len(r.log) : IsResponse(r.log[i]) /\ r.log[i].status = 500)
    => /\ r.nDispatch = r.maxRetries + 1
       /\ Rejected(r)
       /\ isHttpError(r.value[1])
       /\ r.value[1].type = Some("http")
       /\ r.value[1].status = Some(500)

(* ------------------------------- C3 ----------------------------------- *)

\* C3: a response with a failure status outside 500..599 is never followed
\* by another dispatch, and a call whose first response is one has made
\* exactly one dispatch and rejects.
C3_NoRetryOutsideServerErrors ==
  \A c \in DOMAIN calls :
    LET r == calls[c] IN
    Quiet(r) =>
      \A i \in 1..Len(r.log) :
        (FailureStatus(r.log[i]) /\ ~ServerErrorStatus(r.log[i]))
        => /\ r.nDispatch = i
           /\ Done(r) => Rejected(r)

(* ------------------------------- C4 ----------------------------------- *)

\* C4: in a call that has rejected, a configured onError hook has been
\* invoked exactly once, with the error the call rejects with.
C4_OnErrorExactlyOnce ==
  \A c \in DOMAIN calls :
    LET r == calls[c] IN
    (Rejected(r) /\ Quiet(r) /\ Get(r.config, "onError") # Undefined)
    => /\ Len(r.onErrorArgs) = 1
       /\ Some(r.onErrorArgs[1]) = r.value

(* ------------------------------- C5 ----------------------------------- *)

\* C5: with a timeout resolved and a caller signal supplied, the dispatch in
\* flight is aborted once the caller's signal is aborted, and once the
\* attempt's timer has fired.
C5_EitherSourceAborts ==
  \A c \in DOMAIN calls :
    LET r == calls[c] IN
    (/\ r.pc = "fetch"
     /\ r.finalTimeout # Undefined
     /\ Get(r.options, "signal") # Undefined
     /\ r.callerAborted \/ r.attempt \in r.aborted)
    => SignalAborted(r, SentSignal(r))

(* ------------------------------- C6 ----------------------------------- *)

\* C6: with a timeout resolved, a call whose every dispatch ended in the
\* transport's abort failure rejects with a TimeoutError of type timeout,
\* never with a NetworkError.
C6_HangingTransportTimesOut ==
  \A c \in DOMAIN calls :
    LET r == calls[c] IN
    (/\ Rejected(r) /\ Quiet(r) /\ r.finalTimeout # Undefined
     /\ Len(r.log) >= 1
     /\ \A i \in 1..Len(r.log) : AbortFailure(r.log[i]))
    => /\ isTimeoutError(r.value[1])
       /\ r.value[1].type = Some("timeout")
       /\ ~isNetworkError(r.value[1])

C6_Witness ==
  \E c \in DOMAIN calls :
    /\ Rejected(calls[c]) /\ Quiet(calls[c])
    /\ calls[c].finalTimeout # Undefined
    /\ Len(calls[c].log) >= 2
    /\ \A i \in 1..Len(calls[c].log) : AbortFailure(calls[c].log[i])
    /\ isTimeoutError(calls[c].value[1])

(* ------------------------------- C7 ----------------------------------- *)

\* the values a call resolves from the configuration cfg (section 4.2)
ExpectedURL(cfg, path, options) ==
  LET base == IF Get(options, "baseURL") # Undefined THEN Get(options, "baseURL")
              ELSE Get(cfg, "baseURL")
  IN  IF base = Undefined \/ base[1] = <<>> THEN path
      ELSE (IF base[1][Len(base[1])] = "/" THEN SubSeq(base[1], 1, Len(base[1]) - 1)
            ELSE base[1])
           \o (IF path # <<>> /\ path[1] = "/" THEN path ELSE <<"/">> \o path)

ExpectedField(cfg, options, field) ==
  IF Get(options, field) # Undefined THEN Get(options, field) ELSE Get(cfg, field)

ExpectedRetryField(cfg, options, field, default) ==
  LET global == IF Get(cfg, "retry") # Undefined THEN Get(cfg, "retry")[1] ELSE EmptyObj
      own == IF Get(options, "retry") # Undefined THEN Get(options, "retry")[1] ELSE EmptyObj
      v == IF field \in DOMAIN own THEN own[field] ELSE Get(global, field)
  IN  IF v # Undefined THEN v[1] ELSE default

ExpectedHeaders(cfg, options) ==
  LET global == IF Get(cfg, "headers") # Undefined THEN Get(cfg, "headers")[1] ELSE EmptyObj
      own == IF Get(options, "headers") # Undefined THEN Get(options, "headers")[1] ELSE EmptyObj
  IN  [k \in (DOMAIN global) \cup (DOMAIN own) |->
         IF k \in DOMAIN own THEN own[k] ELSE global[k]]

HooksOf(cfg) ==
  {Get(cfg, h)[1] : h \in {h \in {"onRequest", "onResponse", "onError"} : h \in DOMAIN cfg}}

\* C7: during the whole attempt sequence a call works with what the
\* configuration current at its start resolves to: the hooks it invokes, the
\* URL and headers it dispatches, its timeout, retry budget and retry delay
\* are those of the start configuration, whatever is configured meanwhile.
C7_SnapshotAtEntry ==
  \A c \in DOMAIN calls :
    LET r == calls[c] IN
    r.pc # "idle" =>
      /\ r.hooksUsed \subseteq HooksOf(r.config)
      /\ r.url = ExpectedURL(r.config, r.path, r.options)
      /\ SameObj(r.mergedHeaders, ExpectedHeaders(r.config, r.options))
      /\ r.finalTimeout = ExpectedField(r.config, r.options, "timeout")
      /\ r.maxRetries = ExpectedRetryField(r.config, r.options, "retries", 0)
      /\ r.retryDelay = ExpectedRetryField(r.config, r.options, "retryDelay", 1000)
      /\ r.nDispatch <= ExpectedRetryField(r.config, r.options, "retries", 0) + 1
      /\ r.timers # {} => ExpectedField(r.config, r.options, "timeout") # Undefined
      /\ r.sent # Undefined =>
           /\ r.sent[1].url \in {ExpectedURL(r.config, r.path, r.options),
                                 <<"/", "modified">>}
           /\ SameObj(Get(r.sent[1].options, "headers")[1],
                      ExpectedHeaders(r.config, r.options))

\* a later attempt of a call started under CfgA invokes onRequest while the
\* global configuration has been replaced by CfgB
C7_Witness ==
  \E c \in DOMAIN calls :
    /\ calls[c].pc = "onRequest"
    /\ calls[c].attempt >= 1
    /\ SameObj(calls[c].config, CfgA)
    /\ SameObj(globalConfig, CfgB)
    /\ "reqA" \in calls[c].hooksUsed

(* ------------------------------- C8 ----------------------------------- *)

\* C8: the global configuration always has exactly the fields and values of
\* the last argument of configureFetchiva, the empty configuration before
\* the first call, and so is never a mixture of two arguments.
C8_ReplaceWholesale ==
  /\ SameObj(getConfig, lastArg)
  /\ \E cfg \in SampleConfigs : SameObj(getConfig, cfg)

\* CfgB was configured over CfgA: the fields only CfgA has are gone
C8_Witness ==
  /\ SameObj(lastArg, CfgB)
  /\ \E c \in DOMAIN calls : SameObj(calls[c].config, CfgA)
  /\ Get(getConfig, "timeout") = Undefined
  /\ Get(getConfig, "onResponse") = Undefined
  /\ Get(getConfig, "baseURL") = Some(<<"other">>)

(* ------------------------------- C9 ----------------------------------- *)

\* onResponse returned a replacement for the result of the call
ResultReplaced(r) == r.result # Undefined /\ r.result[1].data = "modified"

\* C9: with a retry budget of at least 1, a first dispatch that ends in a
\* connectivity failure or a 5xx status does not end the call; when the
\* second dispatch returns a success response there is no third dispatch
\* and the call resolves with the data of that response.
C9_RetryThenSuccess ==
  \A c \in DOMAIN calls :
    LET r == calls[c] IN
    (/\ r.maxRetries >= 1 /\ Quiet(r) /\ Len(r.log) >= 1
     /\ ConnectivityFailure(r.log[1]) \/ ServerErrorStatus(r.log[1]))
    => /\ Done(r) => r.nDispatch >= 2
       /\ (Len(r.log) >= 2 /\ IsResponse(r.log[2]) /\ ~FailureStatus(r.log[2]))
          => /\ r.nDispatch = 2
             /\ Done(r) => /\ Resolved(r)
                           /\ r.value[1].ok
                           /\ ~ResultReplaced(r) => r.value[1].data = r.response[1].data

C9_Witness ==
  \E c \in DOMAIN calls :
    /\ Resolved(calls[c]) /\ Quiet(calls[c])
    /\ calls[c].nDispatch = 2
    /\ ConnectivityFailure(calls[c].log[1])
    /\ calls[c].value[1].data = "d"

(* ------------------------------- C10 ---------------------------------- *)

\* C10: a finished call whose last dispatch returned a failure status has
\* rejected with an HttpError that carries the status and statusText of that
\* response and the url and method that were dispatched, whatever the
\* status text is.
C10_HttpErrorForFailureStatus ==
  \A c \in DOMAIN calls :
    LET r == calls[c] IN
    (/\ Done(r) /\ Quiet(r) /\ Len(r.log) >= 1
     /\ Len(r.log) = r.nDispatch
     /\ FailureStatus(r.log[Len(r.log)]))
    => /\ Rejected(r)
       /\ isHttpError(r.value[1])
       /\ r.value[1].type = Some("http")
       /\ r.value[1].status = Some(r.response[1].status)
       /\ r.value[1].statusText = Some(r.response[1].statusText)
       /\ r.value[1].url = Some(r.sent[1].url)
       /\ r.value[1].method = Get(r.sent[1].options, "method")

(* ------------------------------- C11 ---------------------------------- *)

\* a dispatch outcome that the engine classifies as network or as timeout
ClassifiedFailure(r, entry) ==
  ConnectivityFailure(entry) \/ (AbortFailure(entry) /\ r.finalTimeout # Undefined)

\* C11: a call whose every dispatch failed with a connectivity failure or a
\* timeout abort rejects only when the budget is used up, with the
\* classified error of its last attempt: the kind, cause, url and method are
\* those of the last dispatch, and nothing else was reported.
C11_LastClassifiedError ==
  \A c \in DOMAIN calls :
    LET r == calls[c]
        n == Len(r.log)
    IN  (/\ Rejected(r) /\ Quiet(r) /\ n >= 1 /\ n = r.nDispatch
         /\ \A i \in 1..n : ClassifiedFailure(r, r.log[i]))
        => /\ r.nDispatch = r.maxRetries + 1
           /\ r.value[1].cls = IF AbortFailure(r.log[n]) THEN "TimeoutError"
                               ELSE "NetworkError"
           /\ r.value[1].type = IF AbortFailure(r.log[n]) THEN Some("timeout")
                                ELSE Some("network")
           /\ r.value[1].cause # Undefined
           /\ r.value[1].cause[1].name = r.log[n].name
           /\ r.value[1].url = Some(r.sent[1].url)
           /\ r.value[1].method = Get(r.sent[1].options, "method")
           /\ r.value = r.lastError
           /\ \A i \in 1..Len(r.onErrorArgs) : r.onErrorArgs[i] = r.value[1]

\* a connectivity failure, then a timeout: the call rejects with the timeout
C11_Witness ==
  \E c \in DOMAIN calls :
    /\ Rejected(calls[c]) /\ Quiet(calls[c])
    /\ calls[c].nDispatch = 2 /\ Len(calls[c].log) = 2
    /\ ConnectivityFailure(calls[c].log[1])
    /\ AbortFailure(calls[c].log[2])
    /\ isTimeoutError(calls[c].value[1])
    /\ calls[c].value[1].cause = Some(AbortErr)

(* ------------------------------- C12 ---------------------------------- *)

\* P without its leading slash
StripLeadingSlash(path) ==
  IF path # <<>> /\ path[1] = "/" THEN SubSeq(path, 2, Len(path)) ELSE path

\* the three URLs of the claim agree for the base B and the path P
SlashInsensitive(P, B, url) ==
  /\ buildURL(P, Some(B \o <<"/">>)) = url
  /\ buildURL(<<"/">> \o StripLeadingSlash(P), Some(B)) = url

\* C12 as stated: for every base B and path P, buildURL(P, B + "/"),
\* buildURL(P, B) and buildURL("/" + P without its leading slash, B) are the
\* same URL.
C12_AnyBase ==
  (probe.kind = "buildURL" /\ probe.baseURL # Undefined)
    => SlashInsensitive(probe.path, probe.baseURL[1], probe.url)

\* C12 amended: for every non-empty base B that does not itself end in a
\* slash and every path P, buildURL(P, B + "/"), buildURL(P, B) and
\* buildURL("/" + P without its leading slash, B) are the same URL.
C12_OneRedundantSlash ==
  (/\ probe.kind = "buildURL" /\ probe.baseURL # Undefined
   /\ probe.baseURL[1] # <<>>
   /\ probe.baseURL[1][Len(probe.baseURL[1])] # "/")
    => SlashInsensitive(probe.path, probe.baseURL[1], probe.url)

\* base "a" and the path "a" without leading slash give "a/a"
C12_Witness ==
  /\ probe.kind = "buildURL"
  /\ probe.baseURL = Some(<<"a">>) /\ probe.path = <<"a">>
  /\ probe.url = <<"a", "/", "a">>
  /\ Get(probe.config, "baseURL") = Some(<<"/", "a">>)

(* ------------------------------- C13 ---------------------------------- *)

\* the base a call resolves against: per-call when given, else global
BaseInUse(cfg, baseURL) ==
  IF baseURL # Undefined THEN baseURL ELSE Get(cfg, "baseURL")

\* base joined to path: one slash between them
Joined(base, path) ==
  (IF base[Len(base)] = "/" THEN SubSeq(base, 1, Len(base) - 1) ELSE base)
    \o (IF path # <<>> /\ path[1] = "/" THEN path ELSE <<"/">> \o path)

\* C13: the URL is resolved against the per-call baseURL when one is given,
\* otherwise against the global baseURL; with a base it is the base joined to
\* the path, and with no base (none configured, or an empty one) it is the
\* path unchanged.
C13_BaseResolution ==
  probe.kind = "buildURL" =>
    LET base == BaseInUse(probe.config, probe.baseURL) IN
    probe.url = IF base = Undefined \/ base[1] = <<>> THEN probe.path
                ELSE Joined(base[1], probe.path)

\* the global base "a" and the path "/a" give "a/a"; a per-call base wins
C13_Witness ==
  /\ probe.kind = "buildURL"
  /\ Get(probe.config, "baseURL") = Some(<<"a">>)
  /\ \/ probe.baseURL = Undefined /\ probe.path = <<"/", "a">>
        /\ probe.url = <<"a", "/", "a">>
     \/ probe.baseURL = Some(<<"/", "a">>) /\ probe.path = <<"a">>
        /\ probe.url = <<"/", "a", "/", "a">>

(* ------------------------------- C14 ---------------------------------- *)

\* the headers object of cfg or of options, empty when there is none
HeadersOf(o) == IF Get(o, "headers") # Undefined THEN Get(o, "headers")[1] ELSE EmptyObj

\* C14: the headers handed to the transport have exactly the keys of the
\* global and of the per-call headers; a key of the per-call headers carries
\* the per-call value and any other key the global value. (The sampled
\* onRequest replacement keeps the headers of the context it is given.)
C14_HeaderUnion ==
  \A c \in DOMAIN calls :
    LET r == calls[c] IN
    r.sent # Undefined =>
      LET h == Get(r.sent[1].options, "headers")[1]
          G == HeadersOf(r.config)
          C == HeadersOf(r.options)
      IN  /\ DOMAIN h = (DOMAIN G) \cup (DOMAIN C)
          /\ \A k \in DOMAIN C : h[k] = C[k]
          /\ \A k \in (DOMAIN G) \ (DOMAIN C) : h[k] = G[k]

\* a key in both (Authorization) and a key of the global headers only (Accept)
C14_Witness ==
  \E c \in DOMAIN calls :
    /\ calls[c].sent # Undefined
    /\ HeadersOf(calls[c].config) =
         ("Authorization" :> Some("global")) @@ ("Accept" :> Some("json"))
    /\ HeadersOf(calls[c].options) = ("Authorization" :> Some("call"))
    /\ Get(calls[c].sent[1].options, "headers") =
         Some(("Authorization" :> Some("call")) @@ ("Accept" :> Some("json")))

(* ------------------------------- C15 ---------------------------------- *)

\* the context an attempt of the call r resolves before any hook runs
OriginalContext(r) ==
  [url |-> r.url,
   options |->
     [k \in ((DOMAIN r.options) \ {"baseURL", "timeout", "retry"})
              \cup {"headers", "signal"} |->
        IF k = "headers" THEN Some(r.mergedHeaders)
        ELSE IF k = "signal"
             THEN (IF r.finalTimeout # Undefined
                   THEN Some(ControllerSignal(r.attempt))
                   ELSE Get(r.options, "signal"))
             ELSE r.options[k]]]

SameContext(a, b) == a.url = b.url /\ SameObj(a.options, b.options)

\* C15: on each attempt the transport is dispatched with the context that
\* onRequest returned, and not with the originally resolved url, when it
\* returned one; with the originally resolved context when it returned
\* nothing or is not configured.
C15_RequestReplacement ==
  \A c \in DOMAIN calls :
    LET r == calls[c] IN
    r.pc = "fetch" =>
      IF r.onRequestReturned # Undefined
      THEN /\ SameContext(r.sent[1], r.onRequestReturned[1])
           /\ r.sent[1].url # r.url
           /\ ~SameObj(r.sent[1].options, OriginalContext(r).options)
      ELSE SameContext(r.sent[1], OriginalContext(r))

\* the second attempt of a call is dispatched with the replacement
C15_Witness ==
  \E c \in DOMAIN calls :
    /\ calls[c].pc = "fetch" /\ calls[c].attempt = 1 /\ calls[c].nDispatch = 2
    /\ calls[c].nOnRequest = 2
    /\ calls[c].onRequestReturned # Undefined
    /\ calls[c].sent[1].url = <<"/", "modified">>
    /\ Get(calls[c].sent[1].options, "method") = Some("PUT")
    /\ calls[c].url # <<"/", "modified">>

(* ------------------------------- C16 ---------------------------------- *)

\* the Response built from the transport's response of the last attempt
BuiltResponse(r) ==
  [data |-> r.response[1].data, status |-> r.response[1].status,
   statusText |-> r.response[1].statusText, headers |-> r.response[1].headers,
   ok |-> (r.response[1].status >= 200 /\ r.response[1].status <= 299)]

\* C16: a call that resolves hands the caller what onResponse returned when
\* it returned a replacement, and otherwise the Response built from the
\* transport's response: its data, status, statusText, headers and ok.
C16_ResponseReplacement ==
  \A c \in DOMAIN calls :
    LET r == calls[c] IN
    Resolved(r) =>
      /\ r.response # Undefined
      /\ r.value[1] = IF r.onResponseReturned # Undefined
                      THEN r.onResponseReturned[1]
                      ELSE BuiltResponse(r)
      /\ r.onResponseReturned # Undefined => r.value[1] # BuiltResponse(r)

\* a replaced result reaches the caller
C16_Witness ==
  \E c \in DOMAIN calls :
    /\ Resolved(calls[c])
    /\ calls[c].onResponseReturned # Undefined
    /\ calls[c].value[1].data = "modified"
    /\ calls[c].response[1].data = "d"

\* the hook returned nothing and the built Response reaches the caller
C16_WitnessVoid ==
  \E c \in DOMAIN calls :
    /\ Resolved(calls[c])
    /\ calls[c].nOnResponse = 1
    /\ calls[c].onResponseReturned = Undefined
    /\ calls[c].value[1].data = "d"

(* ------------------------------- C17 ---------------------------------- *)

\* the retry object of cfg or of options, empty when there is none
RetryOf(o) == IF Get(o, "retry") # Undefined THEN Get(o, "retry")[1] ELSE EmptyObj

\* one field of the retry policy: per-call if the per-call retry object has
\* the field, else global, else the default
RetryField(r, field, default) ==
  LET v == IF field \in DOMAIN RetryOf(r.options) THEN RetryOf(r.options)[field]
           ELSE Get(RetryOf(r.config), field)
  IN  IF v # Undefined THEN v[1] ELSE default

\* C17: retries and retryDelay of a call are each the per-call value when
\* the per-call retry object specifies the field, otherwise the global
\* value, otherwise the default (0 and 1000); a call with no retry
\* configured anywhere dispatches at most once and never waits for a retry.
C17_RetryPerField ==
  \A c \in DOMAIN calls :
    LET r == calls[c] IN
    r.pc # "idle" =>
      /\ r.maxRetries = RetryField(r, "retries", 0)
      /\ r.retryDelay = RetryField(r, "retryDelay", 1000)
      /\ (DOMAIN RetryOf(r.options) = {} /\ DOMAIN RetryOf(r.config) = {})
           => /\ r.maxRetries = 0 /\ r.retryDelay = 1000
              /\ r.attempt = 0 /\ r.nDispatch <= 1 /\ r.pc # "delay"

\* retries from the per-call object, retryDelay from the global one
C17_Witness ==
  \E c \in DOMAIN calls :
    /\ calls[c].pc = "delay"
    /\ DOMAIN RetryOf(calls[c].options) = {"retries"}
    /\ "retryDelay" \in DOMAIN RetryOf(calls[c].config)
    /\ calls[c].maxRetries = 1
    /\ calls[c].retryDelay = 10

\* no retry anywhere: a 5xx answer ends the call after one dispatch
C17_WitnessNoRetry ==
  \E c \in DOMAIN calls :
    /\ Rejected(calls[c])
    /\ DOMAIN RetryOf(calls[c].options) = {} /\ DOMAIN RetryOf(calls[c].config) = {}
    /\ calls[c].nDispatch = 1
    /\ ServerErrorStatus(calls[c].log[1])

(* ------------------------------- C18 ---------------------------------- *)

IsTimeoutKind(e) == e.cls = "TimeoutError"

\* C18: the timeout of a call is the per-call timeout when given, otherwise
\* the global one, otherwise unset; a call with no timeout never has a timer
\* or an abort controller, and no error it reports, keeps or rejects with is
\* a timeout error.
C18_EffectiveTimeout ==
  \A c \in DOMAIN calls :
    LET r == calls[c]
        own == Get(r.options, "timeout")
    IN  r.pc # "idle" =>
          /\ r.finalTimeout = IF own # Undefined THEN own ELSE Get(r.config, "timeout")
          /\ r.finalTimeout = Undefined =>
               /\ r.timers = {} /\ r.timeoutId = Undefined
               /\ r.controller = Undefined /\ r.aborted = {}
               /\ r.lastError # Undefined => ~IsTimeoutKind(r.lastError[1])
               /\ Rejected(r) => ~IsTimeoutKind(r.value[1])
               /\ \A i \in 1..Len(r.onErrorArgs) : ~IsTimeoutKind(r.onErrorArgs[i])

\* the per-call timeout 30 is used although 50 is configured, and its timer
\* is armed
C18_Witness ==
  \E c \in DOMAIN calls :
    /\ Get(calls[c].config, "timeout") = Some(50)
    /\ Get(calls[c].options, "timeout") = Some(30)
    /\ calls[c].finalTimeout = Some(30)
    /\ calls[c].timers # {}

\* no timeout anywhere: an abort by the caller ends the call without a
\* timeout error
C18_WitnessUnset ==
  \E c \in DOMAIN calls :
    /\ Rejected(calls[c]) /\ calls[c].finalTimeout = Undefined
    /\ \E i \in 1..Len(calls[c].log) : AbortFailure(calls[c].log[i])

(* ------------------------------- C19 ---------------------------------- *)

\* C19: once the onError hook has thrown, the call does not start another
\* attempt and does not resolve: it can only be on its way to rejecting.
C19_OnErrorThrowEndsCall ==
  \A c \in DOMAIN calls :
    calls[c].onErrorThrew # Undefined =>
      /\ calls[c].pc \in {"onErrorCatch", "onErrorFinal", "done"}
      /\ ~Resolved(calls[c])

(* ------------------------------- C20 ---------------------------------- *)

\* C20: isNetworkError, isTimeoutError and isHttpError each hold exactly for
\* the values constructed as an error of their own class, and isFetchivaError
\* exactly for the values constructed as the base error or as one of the
\* three; none holds for a generic error, an object literal with the same
\* fields, a string, a number, null or undefined.
C20_GuardsDiscriminate ==
  probe.kind = "guards" =>
    /\ probe.isNetworkError = (probe.made = "NetworkError")
    /\ probe.isTimeoutError = (probe.made = "TimeoutError")
    /\ probe.isHttpError = (probe.made = "HttpError")
    /\ probe.isFetchivaError =
         (probe.made \in {"FetchivaError", "NetworkError", "TimeoutError", "HttpError"})

\* the base error of type network is a fetchiva error and not a NetworkError
C20_Witness ==
  /\ probe.kind = "guards"
  /\ probe.made = "FetchivaError"
  /\ probe.value.type = Some("network")
  /\ probe.isFetchivaError
  /\ ~probe.isNetworkError

(* ------------------------------- C21 ---------------------------------- *)

\* the kind of an error value: its type field
KindOf(v) == IF "type" \in DOMAIN v THEN v.type ELSE Undefined

\* C21: every error value of kind http carries status and statusText, and no
\* error value of kind network or timeout carries either.
C21_HttpCarriesStatus ==
  probe.kind = "guards" =>
    LET v == probe.value IN
    /\ KindOf(v) = Some("http") => v.status # Undefined /\ v.statusText # Undefined
    /\ KindOf(v) \in {Some("network"), Some("timeout")}
         => v.status = Undefined /\ v.statusText = Undefined

(* ------------------------------- C22 ---------------------------------- *)

\* the positions of a call at which no further attempt can follow
Terminal == {"onErrorHttp", "onErrorCatch", "onErrorFinal", "done"}

\* C22: onError is never invoked for an attempt that is followed by another
\* attempt: once onError has been invoked, the call is reporting its terminal
\* failure or is finished, and neither waits for a retry nor dispatches again
\* (stated for calls in which no hook and no body parser throws).
C22_NoOnErrorBeforeRetry ==
  \A c \in DOMAIN calls :
    (Quiet(calls[c]) /\ Len(calls[c].onErrorArgs) > 0) => calls[c].pc \in Terminal

(* ------------------------------- C23 ---------------------------------- *)

\* C23: at most one timer of a call is armed, and it is the timer of the
\* attempt in progress; no timer is armed once the attempt has been left for
\* a retry, and none once the call has resolved or rejected, whichever way
\* it ended.
C23_NoTimerLeak ==
  \A c \in DOMAIN calls :
    LET r == calls[c] IN
    /\ Cardinality(r.timers) <= 1
    /\ r.timers \subseteq (IF r.timeoutId # Undefined THEN {r.timeoutId[1]} ELSE {})
    /\ r.pc = "delay" => r.timers = {}
    /\ Done(r) => r.timers = {}

\* a call with a timeout ends on a hook exception before its timer fired
C23_Witness ==
  \E c \in DOMAIN calls :
    /\ Done(calls[c]) /\ calls[c].hookThrew
    /\ calls[c].finalTimeout # Undefined
    /\ Len(calls[c].armed) = 2
    /\ calls[c].aborted = {}
    /\ calls[c].timers = {}

(* ------------------------------- C24 ---------------------------------- *)

\* C24: while a call waits out the retry delay no timer of it is armed and
\* its next attempt has not started: as many attempts have begun (timers
\* armed, onRequest invocations, dispatches) as have been given up.
C24_QuietDelay ==
  \A c \in DOMAIN calls :
    LET r == calls[c] IN
    r.pc = "delay" =>
      /\ r.timers = {}
      /\ r.attempt >= 1
      /\ r.nDispatch <= r.attempt
      /\ r.finalTimeout # Undefined => Len(r.armed) = r.attempt
      /\ HasHook(r, "onRequest") => r.nOnRequest = r.attempt

\* a 5xx answer arrived before the timer fired and the call waits to retry
C24_Witness ==
  \E c \in DOMAIN calls :
    /\ calls[c].pc = "delay"
    /\ calls[c].finalTimeout # Undefined
    /\ calls[c].armed = <<0>>
    /\ calls[c].aborted = {}
    /\ calls[c].nDispatch = 1
    /\ ServerErrorStatus(calls[c].log[1])

(* ------------------------------- C25 ---------------------------------- *)

\* every dispatch of the call was made and ended in an abort
AlwaysAborted(r) ==
  /\ Len(r.log) >= 1 /\ Len(r.log) = r.nDispatch
  /\ \A i \in 1..Len(r.log) : AbortFailure(r.log[i])

\* C25: with a timeout set every attempt arms a timer and a cancellation
\* source of its own: the sources of a call are pairwise distinct, the
\* transport is given the signal of the latest one, only the latest one can
\* be armed or aborted, and it is aborted only once its own timer is gone;
\* when the transport hangs on every attempt, retries + 1 timers have been
\* armed and the call rejects with a timeout error.
C25_TimerPerAttempt ==
  \A c \in DOMAIN calls :
    LET r == calls[c]
        n == Len(r.armed)
    IN  (r.finalTimeout # Undefined /\ r.pc # "idle") =>
          /\ n >= 1
          /\ \A i, j \in 1..n : i # j => r.armed[i] # r.armed[j]
          /\ r.timers \subseteq {r.armed[n]}
          /\ r.aborted \subseteq {r.armed[n]}
          /\ r.aborted \cap r.timers = {}
          /\ r.pc \in {"onRequest", "fetch", "json", "onResponse", "onErrorHttp"}
               => n = r.attempt + 1 /\ r.controller = Some(r.armed[n])
          /\ r.pc = "fetch" => SentSignal(r) = Some(ControllerSignal(r.armed[n]))
          /\ (Rejected(r) /\ Quiet(r) /\ AlwaysAborted(r))
               => /\ r.nDispatch = r.maxRetries + 1
                  /\ n = r.maxRetries + 1
                  /\ IsTimeoutKind(r.value[1])

\* two attempts, two timers, each attempt aborted, the call timed out
C25_Witness ==
  \E c \in DOMAIN calls :
    /\ Rejected(calls[c]) /\ Quiet(calls[c]) /\ AlwaysAborted(calls[c])
    /\ calls[c].maxRetries = 1
    /\ calls[c].armed = <<0, 1>>
    /\ calls[c].aborted = {1}
    /\ isTimeoutError(calls[c].value[1])

(* ------------------------------- C26 ---------------------------------- *)

\* the timer of the attempt of r that was last begun has fired
OwnTimerFired(r) ==
  r.finalTimeout # Undefined /\ r.controller # Undefined /\ r.controller[1] \in r.aborted

\* the step from r to r2 is a dispatch that fails
DispatchFails(r, r2) ==
  /\ r.pc = "fetch"
  /\ Len(r2.log) = Len(r.log) + 1
  /\ r2.log[Len(r2.log)].kind = "failure"

\* C26: a failing dispatch is classified as a timeout only if a timeout is
\* set and the timer of its attempt had fired before; in particular an abort
\* through the caller's signal with no timeout set is not.
C26_TimeoutOnlyAfterOwnTimer ==
  [][\A c \in DOMAIN calls :
       (DispatchFails(calls[c], calls'[c]) /\ IsTimeoutKind(calls'[c].lastError[1]))
         => OwnTimerFired(calls[c])]_vars

\* the caller aborted a dispatch of a call without timeout: not a timeout
C26_Witness ==
  \E c \in DOMAIN calls :
    /\ Rejected(calls[c]) /\ Quiet(calls[c])
    /\ calls[c].callerAborted /\ calls[c].finalTimeout = Undefined
    /\ AbortFailure(calls[c].log[Len(calls[c].log)])
    /\ ~IsTimeoutKind(calls[c].value[1])

(* ------------------------------- C27 ---------------------------------- *)

\* C27: a call whose last dispatch was aborted by something other than the
\* attempt's own timer rejects with a network error.
C27_ForeignAbortIsNetwork ==
  \A c \in DOMAIN calls :
    LET r == calls[c] IN
    (/\ Rejected(r) /\ Quiet(r)
     /\ Len(r.log) >= 1 /\ Len(r.log) = r.nDispatch
     /\ AbortFailure(r.log[Len(r.log)])
     /\ ~OwnTimerFired(r))
      => r.value[1].cls = "NetworkError"

(* ------------------------------- C28 ---------------------------------- *)

\* the error is none of the taxonomy: it was propagated as it was thrown
Unclassified(e) == e.cls \notin {"NetworkError", "TimeoutError", "HttpError"}

\* C28: a failure left unclassified ends the call on the attempt where it
\* occurs: with such an error as its last one the call is reporting it or
\* has rejected, and neither waits for a retry nor dispatches again.
C28_UnclassifiedIsTerminal ==
  \A c \in DOMAIN calls :
    LET r == calls[c] IN
    (r.lastError # Undefined /\ Unclassified(r.lastError[1]))
      => r.pc \in {"onErrorCatch", "onErrorFinal", "done"} /\ ~Resolved(r)

(* ------------------------------- C29 ---------------------------------- *)

\* attempts are sequential and onRequest precedes the dispatch of its attempt
AttemptsInOrder(r) ==
  /\ r.pc = "onRequest" => r.nDispatch = r.attempt /\ r.nOnRequest = r.attempt + 1
  /\ r.pc \in {"fetch", "json", "onResponse", "onErrorHttp"}
       => /\ r.nDispatch = r.attempt + 1
          /\ HasHook(r, "onRequest") => r.nOnRequest = r.nDispatch
  /\ r.pc = "delay" => r.nDispatch = r.attempt

\* onResponse runs on the parsed body of a success response just received
OnResponseAfterSuccess(r) ==
  (r.pc = "onResponse" \/ r.nOnResponse > 0)
    => /\ r.response # Undefined /\ ResponseOk(r.response[1].status)
       /\ r.result # Undefined
       /\ Len(r.log) = r.nDispatch
       /\ r.log[Len(r.log)].kind = "response"
       /\ r.log[Len(r.log)].status = r.response[1].status

\* C29: within a call the attempts are sequential, in each attempt onRequest
\* completes before the dispatch starts, onResponse runs only after a
\* dispatch that returned a success response and after body parsing, and
\* onError runs only after the last dispatch of the call (stated for calls in
\* which no hook and no body parser throws).
C29_EventOrder ==
  \A c \in DOMAIN calls :
    LET r == calls[c] IN
    Quiet(r) =>
      /\ AttemptsInOrder(r)
      /\ OnResponseAfterSuccess(r)
      /\ r.onErrorArgs # <<>> => r.pc \notin {"delay", "onRequest", "fetch", "json", "onResponse"}

(* ------------------------------- C30 ---------------------------------- *)

Configured(r, h) == Get(r.config, h) # Undefined

\* C30: in a call none of whose hooks has thrown, a configured onRequest has
\* been invoked once for every dispatch made (and once more while it runs
\* ahead of the next dispatch), and a configured onResponse has been invoked
\* at most once: exactly once when the call has resolved and not at all when
\* it has rejected.
C30_HookCounts ==
  \A c \in DOMAIN calls :
    LET r == calls[c] IN
    (r.pc # "idle" /\ ~r.hookThrew) =>
      /\ Configured(r, "onRequest")
           => r.nOnRequest = r.nDispatch + (IF r.pc = "onRequest" THEN 1 ELSE 0)
      /\ r.nOnResponse <= 1
      /\ Configured(r, "onResponse")
           => /\ Resolved(r) => r.nOnResponse = 1
              /\ Rejected(r) => r.nOnResponse = 0
              /\ r.nOnResponse = 1 => r.pc = "onResponse" \/ Resolved(r)

\* two attempts, two onRequest invocations, one onResponse invocation
C30_Witness ==
  \E c \in DOMAIN calls :
    /\ Resolved(calls[c]) /\ ~calls[c].hookThrew
    /\ calls[c].nDispatch = 2
    /\ calls[c].nOnRequest = 2
    /\ calls[c].nOnResponse = 1

\* two attempts end in a rejection: onResponse was never invoked
C30_WitnessRejected ==
  \E c \in DOMAIN calls :
    /\ Rejected(calls[c]) /\ ~calls[c].hookThrew
    /\ Configured(calls[c], "onResponse")
    /\ calls[c].nDispatch = 2 /\ calls[c].nOnRequest = 2
    /\ calls[c].nOnResponse = 0

(* ------------------------------- C31 ---------------------------------- *)

\* C31: a call never changes the global configuration: every step in which
\* a call starts or moves on, whatever its outcome and however many attempts
\* it makes, leaves the value getConfig() returns as it was; only
\* configureFetchiva changes it.
C31_CallsLeaveConfig ==
  [][calls' # calls => globalConfig' = globalConfig]_vars

\* a call with per-call headers, started under a configuration with global
\* headers, is over after two attempts and the store still holds that
\* configuration
C31_Witness ==
  \E c \in DOMAIN calls :
    LET r == calls[c] IN
    /\ Done(r) /\ r.nDispatch = 2
    /\ Get(r.options, "headers") # Undefined
    /\ Get(r.config, "headers") # Undefined
    /\ SameObj(globalConfig, r.config)

(* ------------------------------- C32 ---------------------------------- *)

\* the fields of the per-call options that the engine reads and keeps
EngineOnly == {"baseURL", "timeout", "retry"}

\* the fields of the per-call options that are passed to the transport as
\* they are
Passthrough(r) == (DOMAIN r.options) \ (EngineOnly \cup {"headers", "signal"})

\* the options record o is one the engine builds for the call r
TransportOptions(r, o) ==
  /\ (DOMAIN o) \cap EngineOnly = {}
  /\ \A k \in Passthrough(r) : k \in DOMAIN o /\ o[k] = r.options[k]
  /\ "headers" \in DOMAIN o /\ o["headers"] # Undefined
  /\ SameObj(o["headers"][1], r.mergedHeaders)
  /\ "signal" \in DOMAIN o

\* C32: on every attempt the options record the engine builds for the
\* transport has none of the fields baseURL, timeout and retry, has the
\* caller's passthrough fields with the caller's values, the merged headers
\* and a signal field; the transport is dispatched with that record unless
\* onRequest replaced it.
C32_TransportOptions ==
  \A c \in DOMAIN calls :
    LET r == calls[c] IN
    /\ r.pc = "onRequest" => TransportOptions(r, r.requestContext[1].options)
    /\ (r.pc = "fetch" /\ r.onRequestReturned = Undefined)
         => TransportOptions(r, r.sent[1].options)

\* the second attempt of a call made with a method and a retry policy is
\* dispatched
C32_Witness ==
  \E c \in DOMAIN calls :
    LET r == calls[c] IN
    /\ r.pc = "fetch" /\ r.attempt = 1 /\ r.onRequestReturned = Undefined
    /\ "method" \in DOMAIN r.options /\ "retry" \in DOMAIN r.options
    /\ "method" \in DOMAIN r.sent[1].options

(* ------------------------------- C33 ---------------------------------- *)

\* C33 as stated: for every path and every global or per-call base, the url
\* the engine resolves for the request context is not the empty string.
C33_UrlNeverEmpty ==
  probe.kind = "buildURL" => Len(probe.url) > 0

\* C33 amended: for every non-empty path and every global or per-call base,
\* the url the engine resolves for the request context is not the empty
\* string.
C33_UrlOfNonEmptyPath ==
  (probe.kind = "buildURL" /\ Len(probe.path) > 0) => Len(probe.url) > 0

\* the base "/" and the path "/": the base contributes nothing and the url
\* is the path
C33_Witness ==
  /\ probe.kind = "buildURL"
  /\ probe.baseURL = Some(<<"/">>) /\ probe.path = <<"/">>
  /\ probe.url = <<"/">>

(* ------------------------------- C34 ---------------------------------- *)

\* the base without its trailing slash, when it has one
StripTrailingSlash(base) ==
  IF base # <<>> /\ base[Len(base)] = "/" THEN SubSeq(base, 1, Len(base) - 1) ELSE base

\* url is the base part and the path part with exactly one slash between
\* them: neither does the base part end in a slash nor the path part start
\* with one
OneSlashJoin(base, path, url) ==
  LET basePart == StripTrailingSlash(base)
      pathPart == StripLeadingSlash(path)
  IN  /\ url = basePart \o <<"/">> \o pathPart
      /\ ~EndsWithSlash(basePart)
      /\ ~StartsWithSlash(pathPart)

\* the base resolved for the probe is a non-empty one
ProbeHasBase ==
  /\ probe.kind = "buildURL"
  /\ BaseInUse(probe.config, probe.baseURL) # Undefined
  /\ BaseInUse(probe.config, probe.baseURL)[1] # <<>>

\* C34 as stated: when a base exists, for every base and path the URL is the
\* base without one trailing slash followed by the path starting with
\* exactly one slash, with exactly one slash between the base part and the
\* path part.
C34_ExactlyOneSlash ==
  ProbeHasBase =>
    OneSlashJoin(BaseInUse(probe.config, probe.baseURL)[1], probe.path, probe.url)

\* C34 amended: when a base exists, for every base that does not end in two
\* slashes and every path that does not start with two slashes the URL is
\* the base without one trailing slash followed by the path starting with
\* exactly one slash, with exactly one slash between the base part and the
\* path part.
C34_OneSlashUnlessDoubled ==
  (/\ ProbeHasBase
   /\ ~EndsWithSlash(StripTrailingSlash(BaseInUse(probe.config, probe.baseURL)[1]))
   /\ ~StartsWithSlash(StripLeadingSlash(probe.path)))
    => OneSlashJoin(BaseInUse(probe.config, probe.baseURL)[1], probe.path, probe.url)

\* the global base "a/" and the path "/a" give "a/a"
C34_Witness ==
  /\ probe.kind = "buildURL" /\ probe.baseURL = Undefined
  /\ Get(probe.config, "baseURL") = Some(<<"a", "/">>)
  /\ probe.path = <<"/", "a">>
  /\ probe.url = <<"a", "/", "a">>

(* ------------------------------- C36 ---------------------------------- *)

\* C36: the attempt loop is always left from inside an attempt: the attempt
\* counter never passes the retry budget, so the code after the loop is
\* never reached; every call that has started has begun an attempt, a call
\* in which no hook throws is over only after at least one dispatch, and a
\* call never rejects with an undefined value.
C36_LoopLeftFromInside ==
  \A c \in DOMAIN calls :
    LET r == calls[c] IN
    r.pc # "idle" =>
      /\ r.attempt <= r.maxRetries
      /\ r.pc # "onErrorFinal"
      /\ r.requestContext # Undefined
      /\ (Done(r) /\ Quiet(r)) => r.nDispatch >= 1
      /\ Rejected(r) => r.value # Undefined

\* a call with a retry budget is rejected by its last attempt, the budget
\* used up
C36_Witness ==
  \E c \in DOMAIN calls :
    LET r == calls[c] IN
    /\ Rejected(r) /\ r.maxRetries >= 1
    /\ r.attempt = r.maxRetries /\ r.nDispatch = r.maxRetries + 1

(* ------------------------------- C38 ---------------------------------- *)

\* C38: in a single call onResponse and onError are never both invoked,
\* also when a hook itself throws.
C38_OneHookPath ==
  \A c \in DOMAIN calls :
    ~(calls[c].nOnResponse > 0 /\ Len(calls[c].onErrorArgs) > 0)

(* ------------------------------- C39 ---------------------------------- *)

SuccessStatus(status) == status >= 200 /\ status <= 299

\* C39: a call resolves only on a success response: when it resolves, the
\* last thing the transport did was to answer with a status in 200..299, and
\* every Response the engine builds has ok = true and such a status, which
\* is neither retried nor rejected.
C39_ResolvesOnSuccessOnly ==
  \A c \in DOMAIN calls :
    LET r == calls[c] IN
    /\ r.result # Undefined =>
         /\ r.result[1].ok = TRUE
         /\ SuccessStatus(r.result[1].status)
         /\ ~isRetryableStatus(r.result[1].status)
    /\ Resolved(r) =>
         /\ Len(r.log) > 0
         /\ IsResponse(r.log[Len(r.log)])
         /\ SuccessStatus(r.log[Len(r.log)].status)

\* a call resolves on its second attempt, the first answered with a failure
\* status
C39_Witness ==
  \E c \in DOMAIN calls :
    LET r == calls[c] IN
    /\ Resolved(r) /\ Len(r.log) = 2
    /\ FailureStatus(r.log[1])
    /\ r.result # Undefined /\ r.result[1].status = 200

(* ------------------------------- C40 ---------------------------------- *)

\* C40: only transport outcomes trigger retries: once a hook or the body
\* parser has thrown, the call reports its failure or is over, without a
\* further delay or dispatch, and the error it reports or rejects with is
\* not of the network kind.
C40_ThrowsAreTerminal ==
  \A c \in DOMAIN calls :
    LET r == calls[c] IN
    r.threwInside =>
      /\ r.pc \in {"onErrorCatch", "onErrorFinal", "done"}
      /\ ~Resolved(r)
      /\ Rejected(r) => ~isNetworkError(r.value[1])
      /\ (r.pc = "onErrorCatch" /\ r.pending # Undefined) => ~isNetworkError(r.pending[1])

(* ------------------------------- C35 ---------------------------------- *)

\* the answers of the transport that differ in what the engine does with
\* them: each status with the plain status text, and 404 also with the text
\* that reads like a connectivity failure
LiveResponses ==
  {response \in Responses :
     response.statusText = <<"Status">> \/ response.status = 404}

\* a step that the transport, a hook, the body parser or the retry delay
\* owes the call c
CallStep(c) ==
  \/ OnRequestVoid(c)
  \/ OnRequestReplace(c)
  \/ \E e \in HookErrors : HookThrowInTry(c, e)
  \/ \E response \in LiveResponses : FetchRespond(c, response)
  \/ \E e \in TransportErrors \cup {AbortErr} : FetchReject(c, e)
  \/ OnErrorHttpReturn(c)
  \/ JsonReturn(c)
  \/ \E e \in JsonErrors \cup {AbortErr} : JsonThrow(c, e)
  \/ OnResponseVoid(c)
  \/ OnResponseReplace(c)
  \/ OnErrorReturn(c)
  \/ \E e \in HookErrors : OnErrorThrow(c, e)
  \/ DelayElapsed(c)

\* every dispatch eventually responds or fails, every hook and every body
\* read eventually returns or throws, every retry delay elapses
Fairness == \A c \in {1} : WF_vars(CallStep(c))

\* the store as some earlier configureFetchiva left it, and one call not
\* yet made
InitLive ==
  /\ globalConfig \in {configureFetchiva(config) : config \in SampleConfigs}
  /\ lastArg = globalConfig
  /\ calls = [c \in {1} |-> IdleCall]
  /\ probe = NoProbe

\* the steps of a call, the configuration left alone meanwhile
NextLive ==
  \/ \E c \in DOMAIN calls, path \in SamplePaths, options \in SampleOptions :
       Start(c, path, options)
  \/ \E c \in DOMAIN calls : \E id \in calls[c].timers : TimerFire(c, id)
  \/ \E c \in DOMAIN calls : CallerAbort(c)
  \/ \E c \in DOMAIN calls : OnRequestVoid(c)
  \/ \E c \in DOMAIN calls : OnRequestReplace(c)
  \/ \E c \in DOMAIN calls, e \in HookErrors : HookThrowInTry(c, e)
  \/ \E c \in DOMAIN calls, response \in LiveResponses : FetchRespond(c, response)
  \/ \E c \in DOMAIN calls, e \in TransportErrors \cup {AbortErr} : FetchReject(c, e)
  \/ \E c \in DOMAIN calls : OnErrorHttpReturn(c)
  \/ \E c \in DOMAIN calls : JsonReturn(c)
  \/ \E c \in DOMAIN calls, e \in JsonErrors \cup {AbortErr} : JsonThrow(c, e)
  \/ \E c \in DOMAIN calls : OnResponseVoid(c)
  \/ \E c \in DOMAIN calls : OnResponseReplace(c)
  \/ \E c \in DOMAIN calls : OnErrorReturn(c)
  \/ \E c \in DOMAIN calls, e \in HookErrors : OnErrorThrow(c, e)
  \/ \E c \in DOMAIN calls : DelayElapsed(c)

SpecLive == InitLive /\ [][NextLive]_vars /\ Fairness

\* the call c is over: resolved with a value or rejected with one error
Settled(c) ==
  /\ Done(calls[c])
  /\ calls[c].outcome \in {"resolved", "rejected"}
  /\ calls[c].value # Undefined

\* C35: provided the transport, the hooks, the body parser and the retry
\* delay each do their step eventually, every call that has started
\* eventually resolves with a Response or rejects with one error, and once it
\* has, that outcome stays: it is never left pending.
C35_EveryCallSettles ==
  /\ \A c \in {1} : (calls[c].pc # "idle") ~> Settled(c)
  /\ [][\A c \in DOMAIN calls : Settled(c) => calls'[c] = calls[c]]_vars

\* a call is over after using its whole retry budget
C35_Witness ==
  \E c \in DOMAIN calls :
    /\ Settled(c) /\ calls[c].maxRetries >= 1
    /\ calls[c].nDispatch = calls[c].maxRetries + 1
    /\ Len(calls[c].armed) = calls[c].nDispatch

(* ------------------------------- C37 ---------------------------------- *)

\* a configuration with a timeout and a retry budget, and no hooks
CfgTwo ==
  ("timeout" :> Some(50)) @@
  ("retry" :> Some(("retries" :> Some(MaxRetries)) @@ ("retryDelay" :> Some(10))))

\* what the transport answers to either call
TwoResponses ==
  {response \in Responses :
     response.statusText = <<"Status">> /\ response.status \in {200, 404, 500}}

\* two calls not yet made, under the configuration CfgTwo
InitTwo ==
  /\ globalConfig = configureFetchiva(CfgTwo)
  /\ lastArg = CfgTwo
  /\ calls = [c \in {1, 2} |-> IdleCall]
  /\ probe = NoProbe

\* the steps of either call, in any interleaving
NextTwo ==
  \/ \E c \in DOMAIN calls, path \in SamplePaths : Start(c, path, EmptyObj)
  \/ \E c \in DOMAIN calls : \E id \in calls[c].timers : TimerFire(c, id)
  \/ \E c \in DOMAIN calls, response \in TwoResponses : FetchRespond(c, response)
  \/ \E c \in DOMAIN calls, e \in TransportErrors \cup {AbortErr} : FetchReject(c, e)
  \/ \E c \in DOMAIN calls : JsonReturn(c)
  \/ \E c \in DOMAIN calls : DelayElapsed(c)

SpecTwo == InitTwo /\ [][NextTwo]_vars

\* the calls c and d were made alike and the transport did the same to both
SameTransportResults(c, d) ==
  /\ calls[c].path = calls[d].path
  /\ SameObj(calls[c].options, calls[d].options)
  /\ SameObj(calls[c].config, calls[d].config)
  /\ calls[c].log = calls[d].log

====
